---- MODULE Spec2Model ----
(***************************************************************************)
(* Model of app.py: the booking table and the handlers that read and write *)
(* it, the session guards, the background email threads, the slot          *)
(* generator and the site loader.                                          *)
(*                                                                         *)
(* Strings are sequences of one-character strings, so that strip, lstrip,  *)
(* strptime and strftime are computed on the characters.                   *)
(***************************************************************************)
EXTENDS Integers, Sequences, FiniteSets, TLC

VARIABLES
  table,     \* the appointments table: a sequence of rows, the id is the index
  session,   \* the Flask session of the browser: a dict key -> value
  ntok,      \* how many csrf tokens secrets.token_urlsafe has issued
  threads,   \* background email threads started and not yet run
  sent,      \* the messages handed to SMTP by the last step
  resp,      \* the last HTTP response
  env,       \* the process environment (fixed at boot)
  workers,   \* the position of each concurrently running request
  slotIn,    \* arguments of a generate_time_slots call
  slotOut,   \* its result
  siteIn,    \* the businesses row and slug of a load_site call
  siteOut    \* its result

vars == <<table, session, ntok, threads, sent, resp, env, workers,
          slotIn, slotOut, siteIn, siteOut>>

-----------------------------------------------------------------------------
(* Characters and strings *)

Digits == <<"0", "1", "2", "3", "4", "5", "6", "7", "8", "9">>

IsDigit(c) == \E i \in 1..10 : Digits[i] = c

DigitVal(c) == (CHOOSE i \in 1..10 : Digits[i] = c) - 1

IsSpace(c) == c \in {" ", "\t", "\n"}

RECURSIVE LStripSpace(_)
LStripSpace(s) ==
  IF s # <<>> /\ IsSpace(Head(s)) THEN LStripSpace(Tail(s)) ELSE s

RECURSIVE RStripSpace(_)
RStripSpace(s) ==
  IF s # <<>> /\ IsSpace(s[Len(s)])
  THEN RStripSpace(SubSeq(s, 1, Len(s) - 1)) ELSE s

\* str.strip()
Strip(s) == RStripSpace(LStripSpace(s))

\* str.lstrip("0")
RECURSIVE LStripZero(_)
LStripZero(s) ==
  IF s # <<>> /\ Head(s) = "0" THEN LStripZero(Tail(s)) ELSE s

\* a decimal number of one or two digits, or -1
Num(s) ==
  IF Len(s) = 1 /\ IsDigit(s[1]) THEN DigitVal(s[1])
  ELSE IF Len(s) = 2 /\ IsDigit(s[1]) /\ IsDigit(s[2])
       THEN 10 * DigitVal(s[1]) + DigitVal(s[2])
       ELSE -1

\* "%02d"
Pad2(n) == <<Digits[(n \div 10) + 1], Digits[(n % 10) + 1]>>

\* the position of the first c in s, or 0
IndexOf(s, c) ==
  IF \E i \in 1..Len(s) : s[i] = c
  THEN CHOOSE i \in 1..Len(s) : s[i] = c /\ \A j \in 1..(i - 1) : s[j] # c
  ELSE 0

-----------------------------------------------------------------------------
(* Hours and slots *)

ValueError == -1

MinutesPerDay == 1440

\* datetime.strptime(s, "%I:%M %p"): minutes after midnight, or ValueError
ParseTime(s) ==
  LET c  == IndexOf(s, ":")
      sp == IndexOf(s, " ")
      hh == Num(SubSeq(s, 1, c - 1))
      mm == Num(SubSeq(s, c + 1, sp - 1))
      ap == SubSeq(s, sp + 1, Len(s))
  IN IF c = 0 \/ sp = 0 \/ sp < c THEN ValueError
     ELSE IF hh < 1 \/ hh > 12 \/ mm < 0 \/ mm > 59 THEN ValueError
     ELSE IF ap \in {<<"A", "M">>, <<"a", "m">>} THEN (hh % 12) * 60 + mm
     ELSE IF ap \in {<<"P", "M">>, <<"p", "m">>} THEN (hh % 12) * 60 + 720 + mm
     ELSE ValueError

\* dt.strftime("%I:%M %p") of a time t minutes after 1900-01-01 00:00
FormatTime(t) ==
  LET m   == t % MinutesPerDay
      h24 == m \div 60
      h12 == IF h24 % 12 = 0 THEN 12 ELSE h24 % 12
  IN Pad2(h12) \o <<":">> \o Pad2(m % 60) \o <<" ">>
       \o (IF h24 < 12 THEN <<"A", "M">> ELSE <<"P", "M">>)

T10AM == <<"1", "0", ":", "0", "0", " ", "A", "M">>
T2PM  == <<"2", ":", "0", "0", " ", "P", "M">>
T7PM  == <<"7", ":", "0", "0", " ", "P", "M">>
T9AM  == <<"9", ":", "0", "0", " ", "A", "M">>
T8AM  == <<"8", ":", "0", "0", " ", "A", "M">>

HOURS_BY_WEEKDAY ==
  (1 :> <<T10AM, T7PM>>) @@ (2 :> <<T2PM, T7PM>>) @@ (3 :> <<T10AM, T7PM>>)
    @@ (4 :> <<T9AM, T2PM>>) @@ (5 :> <<T8AM, T2PM>>)

\* the while loop of generate_time_slots, on datetimes in minutes
RECURSIVE SlotLoop(_, _, _, _)
SlotLoop(slots, start_dt, end_dt, interval_minutes) ==
  IF start_dt < end_dt
  THEN SlotLoop(Append(slots, LStripZero(FormatTime(start_dt))),
                start_dt + interval_minutes, end_dt, interval_minutes)
  ELSE slots

\* mutant: the loop runs while start_dt <= end_dt
generate_time_slots_closed(start, end, interval_minutes) ==
  SlotLoop(<<>>, ParseTime(start), ParseTime(end) + 1, interval_minutes)

generate_time_slots(start, end, interval_minutes) ==
  SlotLoop(<<>>, ParseTime(start), ParseTime(end), interval_minutes)

-----------------------------------------------------------------------------
(* Dates *)

IsLeap(y) == y % 4 = 0 /\ (y % 100 # 0 \/ y % 400 = 0)

DaysInMonth(y, m) ==
  IF m = 2 THEN (IF IsLeap(y) THEN 29 ELSE 28)
  ELSE IF m \in {4, 6, 9, 11} THEN 30 ELSE 31

RECURSIVE DaysBeforeMonth(_, _)
DaysBeforeMonth(y, m) ==
  IF m = 1 THEN 0 ELSE DaysBeforeMonth(y, m - 1) + DaysInMonth(y, m - 1)

\* date.toordinal()
Ordinal(y, m, d) ==
  (y - 1) * 365 + ((y - 1) \div 4) - ((y - 1) \div 100) + ((y - 1) \div 400)
    + DaysBeforeMonth(y, m) + d

\* datetime.strptime(s, "%Y-%m-%d").weekday(): 0 = Monday .. 6 = Sunday, or
\* ValueError. %m and %d take one or two digits.
ParseWeekday(s) ==
  LET rest == SubSeq(s, 6, Len(s))
      dash == IndexOf(rest, "-")
      y    == 1000 * DigitVal(s[1]) + 100 * DigitVal(s[2])
                + 10 * DigitVal(s[3]) + DigitVal(s[4])
      m    == Num(SubSeq(rest, 1, dash - 1))
      d    == Num(SubSeq(rest, dash + 1, Len(rest)))
  IN IF Len(s) < 8 \/ (\E i \in 1..4 : ~IsDigit(s[i])) \/ s[5] # "-" \/ dash = 0
     THEN ValueError
     ELSE IF y < 1 \/ m < 1 \/ m > 12 \/ d < 1 THEN ValueError
     ELSE IF d > DaysInMonth(y, m) THEN ValueError
     ELSE (Ordinal(y, m, d) + 6) % 7

-----------------------------------------------------------------------------
(* The appointments table *)

\* Python's None, and a missing form field or header
None == <<"None">>

\* x or ""
OrEmpty(x) == IF x = None THEN <<>> ELSE x

\* x or None
OrNone(x) == IF x = <<>> THEN None ELSE x

Ids(t) == 1..Len(t)

\* mutant: the query leaves out .eq("status", "Scheduled")
sb_slot_taken_any_status(t, date_str, time_str) ==
  \E i \in Ids(t) : t[i].date = date_str /\ t[i].time = time_str

sb_slot_taken(t, date_str, time_str) ==
  \E i \in Ids(t) :
    t[i].date = date_str /\ t[i].time = time_str /\ t[i].status = "Scheduled"

sb_insert_booking(t, date_str, time_str, name, service, email) ==
  Append(t, [date |-> date_str, time |-> time_str, name |-> name,
             service |-> service, email |-> OrNone(email),
             status |-> "Scheduled"])

\* _fetch_booking: the row, or None
fetch_booking(t, booking_id) ==
  IF booking_id \in Ids(t) THEN t[booking_id] ELSE None

\* the rows sb_cancel_by_details updates
DetailMatches(t, date_str, time_str, name, service) ==
  {i \in Ids(t) : t[i].date = date_str /\ t[i].time = time_str
                    /\ t[i].name = name /\ t[i].service = service
                    /\ t[i].status = "Scheduled"}

\* mutant: the status is written with another spelling
sb_cancel_by_details_spelling(t, date_str, time_str, name, service) ==
  [i \in Ids(t) |->
     IF i \in DetailMatches(t, date_str, time_str, name, service)
     THEN [t[i] EXCEPT !.status = "Canceled"] ELSE t[i]]

sb_cancel_by_details(t, date_str, time_str, name, service) ==
  [i \in Ids(t) |->
     IF i \in DetailMatches(t, date_str, time_str, name, service)
     THEN [t[i] EXCEPT !.status = "Cancelled"] ELSE t[i]]

\* mutant: the update leaves out .eq("status", "Scheduled")
SetStatusByIdUnguarded(t, booking_id, status) ==
  [i \in Ids(t) |->
     IF i = booking_id THEN [t[i] EXCEPT !.status = status] ELSE t[i]]

\* the update of sb_cancel_by_id / sb_complete_by_id
SetStatusById(t, booking_id, status) ==
  [i \in Ids(t) |->
     IF i = booking_id /\ t[i].status = "Scheduled"
     THEN [t[i] EXCEPT !.status = status] ELSE t[i]]

sb_cancel_by_id(t, booking_id) == SetStatusById(t, booking_id, "Cancelled")

sb_complete_by_id(t, booking_id) == SetStatusById(t, booking_id, "Completed")

\* changed, as sb_cancel_by_id / sb_complete_by_id compute it from the row
\* fetched after the update
Changed(t, booking_id, status) ==
  booking_id \in Ids(t) /\ fetch_booking(t, booking_id).status = status

\* the clash query of sb_update_booking
UpdateClash(t, booking_id, date_str, time_str) ==
  \E i \in Ids(t) :
    t[i].date = date_str /\ t[i].time = time_str
      /\ t[i].status = "Scheduled" /\ i # booking_id

\* the update of sb_update_booking
sb_update_booking(t, booking_id, name, service, date_str, time_str) ==
  [i \in Ids(t) |->
     IF i = booking_id
     THEN [t[i] EXCEPT !.name = name, !.service = service,
                       !.date = date_str, !.time = time_str]
     ELSE t[i]]

-----------------------------------------------------------------------------
(* Bounds and inputs *)

MaxBookings == 2     \* rows the table may hold
MaxThreads  == 1     \* email threads started and not yet run
MaxLogins   == 2     \* csrf tokens issued

DTue      == <<"2", "0", "2", "5", "-", "0", "1", "-", "0", "7">>
DSun      == <<"2", "0", "2", "5", "-", "0", "1", "-", "0", "5">>
DMon      == <<"2", "0", "2", "5", "-", "0", "1", "-", "0", "6">>
DFri      == <<"2", "0", "2", "5", "-", "0", "1", "-", "1", "0">>
DTueShort == <<"2", "0", "2", "5", "-", "1", "-", "7">>
DFeb30    == <<"2", "0", "2", "5", "-", "0", "2", "-", "3", "0">>
DJunk     == <<"t", "o", "d", "a", "y">>

Ann     == <<"A", "n", "n">>
Bob     == <<"B", "o", "b">>
Cut     == <<"C", "u", "t">>
Mail    == <<"a", "@", "x">>
Blank   == <<" ">>

\* a string with white space around it, as a form may submit it
Padded(s) == <<" ">> \o s \o <<" ">>

\* the (date, time) pairs a form or an update asks for: a slot of a Tuesday,
\* and the closing time of a Tuesday on a Sunday
AskedSlots == {<<DTue, T10AM>>, <<DSun, T7PM>>}

\* the forms POSTed to /book; a field read under either of its two names
\* (date / appointment_date, ...) is one field here, None when absent
BookForms ==
  {[date |-> a[1], time |-> a[2], name |-> Ann, service |-> Cut, email |-> e]
     : a \in AskedSlots, e \in {None, Mail}}
  \cup {[date |-> Padded(DTue), time |-> Padded(T10AM), name |-> Padded(Ann),
         service |-> Padded(Cut), email |-> e] : e \in {Padded(Mail), Blank}}
  \cup {[date |-> Blank, time |-> T10AM, name |-> Ann, service |-> Cut,
         email |-> Mail],
        [date |-> DTue, time |-> None, name |-> Ann, service |-> Cut,
         email |-> Mail],
        [date |-> DTue, time |-> T10AM, name |-> <<>>, service |-> Cut,
         email |-> Mail],
        [date |-> DTue, time |-> T10AM, name |-> Ann, service |-> Blank,
         email |-> Mail]}

\* the forms POSTed to /cancel
CancelForms ==
  {[date |-> a[1], time |-> a[2], name |-> Ann, service |-> Cut]
     : a \in AskedSlots}
  \cup {[date |-> DTue, time |-> T10AM, name |-> Bob, service |-> Cut]}

\* the JSON bodies POSTed to /admin/api/update/<id>
UpdateBodies ==
  {[date |-> a[1], time |-> a[2], name |-> Padded(Ann), service |-> Cut]
     : a \in AskedSlots}
  \cup {[date |-> DTue, time |-> T10AM, name |-> None, service |-> Cut]}

\* the date argument of GET /available_times
DateArgs == {None, <<>>, DTue, DTueShort, DSun, DMon, DFri, DFeb30, DJunk}

\* the booking ids of admin URLs: every row and one id that is no row
BookingIds == 1..(MaxBookings + 1)

-----------------------------------------------------------------------------
(* Environment, admins and sessions *)

AdminMail == <<"o", "w", "n", "@", "x">>
Pw1       == <<"p", "1">>
Pw2       == <<"p", "2">>

\* str.lower() on the letters the inputs use
LowerChar(c) ==
  IF c = "O" THEN "o" ELSE IF c = "W" THEN "w" ELSE IF c = "N" THEN "n"
  ELSE IF c = "B" THEN "b" ELSE IF c = "X" THEN "x" ELSE c

Lower(s) == [i \in 1..Len(s) |-> LowerChar(s[i])]

\* werkzeug's password hash and check_password_hash
PasswordHash(pw) == <<"#">> \o pw

check_password_hash(hash, pw) == hash = PasswordHash(pw)

\* the admins table
Admins ==
  <<[id |-> 3, email |-> AdminMail, password_hash |-> PasswordHash(Pw2)]>>

\* the environments the process may boot with; an unset variable is None
Envs ==
  {[ADMIN_EMAIL |-> Padded(<<"O", "w", "n", "@", "X">>), ADMIN_PASSWORD |-> Pw1,
    SEND_CUSTOMER_NOTIFICATIONS |-> TRUE, SMTP_READY |-> TRUE],
   [ADMIN_EMAIL |-> None, ADMIN_PASSWORD |-> None,
    SEND_CUSTOMER_NOTIFICATIONS |-> FALSE, SMTP_READY |-> FALSE]}

\* the credentials a login form submits
LoginForms ==
  {[email |-> e, password |-> p]
     : e \in {Padded(<<"O", "W", "N", "@", "x">>), Mail, None},
       p \in {Pw1, Pw2}}

\* the n-th value of secrets.token_urlsafe(32)
Token(n) == <<"t", Digits[n + 1]>>

\* the X-CSRF-Token header of a request: absent, or any token issued so far
Headers == {None} \cup {Token(n) : n \in 1..ntok}

EmptySession == [k \in {} |-> None]

\* session.get(key)
SessionGet(key) == IF key \in DOMAIN session THEN session[key] ELSE None

\* mutant: the handlers are not wrapped in requires_login
LoggedInAlways == TRUE

\* requires_login lets the request through
LoggedIn == "user_id" \in DOMAIN session /\ session["user_id"] # 0

\* requires_csrf lets the request through

\* mutant: the handlers are not wrapped in requires_csrf
CsrfOkAlways(header) == TRUE

\* requires_csrf lets the request through
CsrfOk(header) == header = SessionGet("csrf")

\* an HTTP response: the handler, the status code, the message and the payload
Response(op, code, msg, data) ==
  [op |-> op, code |-> code, msg |-> msg, data |-> data]

NoResponse == Response("none", 0, "", None)

\* nothing handed to SMTP
NoMail == {}

\* generate_time_slots not called yet
NoSlots == [done |-> FALSE, slots |-> <<>>]

\* no load_site call has returned
NoSite == [done |-> FALSE]

\* a message handed to SMTP: its kind and its recipient
Message(kind, to) == [kind |-> kind, to |-> to]

RedirectToLogin(op) == Response(op, 302, "login", None)

CsrfError(op) == Response(op, 403, "csrf", None)

\* the row of admins the query of login_post returns, or 0
AdminRow(email) ==
  IF \E i \in 1..Len(Admins) : Admins[i].email = email
  THEN CHOOSE i \in 1..Len(Admins) :
         Admins[i].email = email /\ \A j \in 1..(i - 1) : Admins[j].email # email
  ELSE 0

\* mutant: a session that holds a csrf token keeps it over a login
NewSessionKeepsToken(user_id, email) ==
  [k \in {"user_id", "email", "csrf"} |->
     IF k = "user_id" THEN user_id
     ELSE IF k = "email" THEN email
     ELSE IF "csrf" \in DOMAIN session THEN session["csrf"]
     ELSE Token(ntok + 1)]

\* session.clear(), then user_id, email and a new csrf token
NewSession(user_id, email) ==
  [k \in {"user_id", "email", "csrf"} |->
     IF k = "user_id" THEN user_id
     ELSE IF k = "email" THEN email ELSE Token(ntok + 1)]

LoginPost(form) ==
  LET email     == Lower(Strip(OrEmpty(form.email)))
      password  == OrEmpty(form.password)
      env_email == Lower(Strip(OrEmpty(env.ADMIN_EMAIL)))
      env_pw    == OrEmpty(env.ADMIN_PASSWORD)
      row       == AdminRow(email)
      Accept(uid, mail) ==
        /\ ntok < MaxLogins
        /\ session' = NewSession(uid, mail)
        /\ ntok' = ntok + 1
        /\ resp' = Response("login", 302, "admin", None)
      Reject(msg) ==
        /\ resp' = Response("login", 401, msg, None)
        /\ UNCHANGED <<session, ntok>>
  IN /\ IF env_email # <<>> /\ env_pw # <<>> /\ email = env_email
        THEN IF password = env_pw
             THEN Accept(1, env_email)
             ELSE Reject("Invalid credentials")
        ELSE IF row = 0 \/ ~check_password_hash(Admins[row].password_hash, password)
             THEN Reject("Invalid email or password")
             ELSE Accept(Admins[row].id, Admins[row].email)
     /\ sent' = NoMail
     /\ UNCHANGED <<table, threads, env, workers, slotIn, slotOut, siteIn, siteOut>>

Logout ==
  /\ session' = EmptySession
  /\ resp' = Response("logout", 302, "login", None)
  /\ sent' = NoMail
  /\ UNCHANGED <<table, ntok, threads, env, workers, slotIn, slotOut, siteIn, siteOut>>

-----------------------------------------------------------------------------
(* Public handlers *)

\* the variables no request handler writes
Fixed == <<env, workers, slotIn, slotOut, siteIn, siteOut>>

\* threading.Thread(target = send_..., daemon = True).start()
StartThread(kind, email) ==
  /\ Len(threads) < MaxThreads
  /\ threads' = Append(threads, [kind |-> kind, email |-> email])

\* POST /book
Book(form) ==
  LET date_str == Strip(OrEmpty(form.date))
      time_str == Strip(OrEmpty(form.time))
      name     == Strip(OrEmpty(form.name))
      service  == Strip(OrEmpty(form.service))
      email    == Strip(OrEmpty(form.email))
  IN /\ IF <<>> \in {date_str, time_str, name, service}
        THEN /\ resp' = Response("book", 400, "Missing fields", None)
             /\ UNCHANGED <<table, threads>>
        ELSE IF sb_slot_taken(table, date_str, time_str)
        THEN /\ resp' = Response("book", 400, "Time already booked", None)
             /\ UNCHANGED <<table, threads>>
        ELSE \/ /\ Len(table) < MaxBookings
                /\ table' = sb_insert_booking(table, date_str, time_str, name,
                                              service, email)
                /\ StartThread("confirmation", email)
                /\ resp' = Response("book", 200, "confirmation", None)
             \/ \* the insert raises
                /\ resp' = Response("book", 500, "Server error", None)
                /\ UNCHANGED <<table, threads>>
     /\ sent' = NoMail
     /\ UNCHANGED <<session, ntok, Fixed>>

\* all_slots of available_times, for each weekday of the hours table
DaySlots ==
  [weekday \in DOMAIN HOURS_BY_WEEKDAY |->
     generate_time_slots(HOURS_BY_WEEKDAY[weekday][1],
                         HOURS_BY_WEEKDAY[weekday][2], 30)]

\* mutant: the query leaves out .eq("status", "Scheduled")
BookedTimesAnyStatus(t, date_str) ==
  {t[i].time : i \in {j \in Ids(t) : t[j].date = date_str}}

\* the rows GET /available_times selects
BookedTimes(t, date_str) ==
  {t[i].time : i \in {j \in Ids(t) : t[j].date = date_str
                                       /\ t[j].status = "Scheduled"}}

\* the times GET /available_times returns
OpenSlots(t, date_str) ==
  LET weekday == ParseWeekday(date_str)
      Free(s) == s \notin BookedTimes(t, date_str)
  IN IF date_str = None \/ date_str = <<>> THEN <<>>
     ELSE IF weekday = ValueError THEN <<>>
     ELSE IF weekday \notin DOMAIN HOURS_BY_WEEKDAY THEN <<>>
     ELSE SelectSeq(DaySlots[weekday], Free)

\* GET /available_times?date=
AvailableTimes(date_arg) ==
  /\ resp' = Response("available_times", 200, "",
                      OpenSlots(table, date_arg))
  /\ sent' = NoMail
  /\ UNCHANGED <<table, session, ntok, threads, Fixed>>

\* POST /cancel
CancelPublic(form) ==
  LET changed == Cardinality(DetailMatches(table, form.date, form.time,
                                           form.name, form.service))
  IN /\ table' = sb_cancel_by_details(table, form.date, form.time,
                                      form.name, form.service)
     /\ resp' = Response("cancel_public", 200,
                         IF changed # 0 THEN "Booking cancelled."
                         ELSE "Booking not found.", None)
     /\ sent' = NoMail
     /\ UNCHANGED <<session, ntok, threads, Fixed>>

-----------------------------------------------------------------------------
(* Admin handlers *)

\* the ids sb_load_appointments lists (their order is not modelled)
sb_load_appointments(t, status) ==
  {i \in Ids(t) : status = "all" \/ t[i].status = "Scheduled"}

\* GET /admin
Admin(status) ==
  /\ IF ~LoggedIn
     THEN resp' = RedirectToLogin("admin")
     ELSE resp' = Response("admin", 200, "admin_cloud",
                           sb_load_appointments(table, status))
  /\ sent' = NoMail
  /\ UNCHANGED <<table, session, ntok, threads, Fixed>>

\* POST /admin/api/cancel/<booking_id>
AdminApiCancel(booking_id, header) ==
  LET after   == sb_cancel_by_id(table, booking_id)
      changed == Changed(after, booking_id, "Cancelled")
  IN /\ IF ~LoggedIn
        THEN resp' = RedirectToLogin("cancel") /\ UNCHANGED <<table, threads>>
        ELSE IF ~CsrfOk(header)
        THEN resp' = CsrfError("cancel") /\ UNCHANGED <<table, threads>>
        ELSE /\ table' = after
             /\ IF changed
                THEN StartThread("cancellation",
                                 fetch_booking(after, booking_id).email)
                ELSE UNCHANGED threads
             /\ resp' = Response("cancel", 200, "ok", changed)
     /\ sent' = NoMail
     /\ UNCHANGED <<session, ntok, Fixed>>

\* POST /admin/api/complete/<booking_id>
AdminApiComplete(booking_id, header) ==
  LET after   == sb_complete_by_id(table, booking_id)
      changed == Changed(after, booking_id, "Completed")
  IN /\ IF ~LoggedIn
        THEN resp' = RedirectToLogin("complete") /\ UNCHANGED <<table, threads>>
        ELSE IF ~CsrfOk(header)
        THEN resp' = CsrfError("complete") /\ UNCHANGED <<table, threads>>
        ELSE /\ table' = after
             /\ IF changed
                THEN StartThread("thanks",
                                 fetch_booking(after, booking_id).email)
                ELSE UNCHANGED threads
             /\ resp' = Response("complete", 200, "ok", changed)
     /\ sent' = NoMail
     /\ UNCHANGED <<session, ntok, Fixed>>

\* POST /admin/api/update/<booking_id>
AdminApiUpdate(booking_id, header, body) ==
  LET name     == Strip(OrEmpty(body.name))
      service  == Strip(OrEmpty(body.service))
      new_date == Strip(OrEmpty(body.date))
      new_time == Strip(OrEmpty(body.time))
      after    == sb_update_booking(table, booking_id, name, service,
                                    new_date, new_time)
  IN /\ IF ~LoggedIn
        THEN resp' = RedirectToLogin("update") /\ UNCHANGED table
        ELSE IF ~CsrfOk(header)
        THEN resp' = CsrfError("update") /\ UNCHANGED table
        ELSE IF <<>> \in {name, service, new_date, new_time}
        THEN /\ resp' = Response("update", 400, "Missing fields", None)
             /\ UNCHANGED table
        ELSE IF UpdateClash(table, booking_id, new_date, new_time)
        THEN /\ resp' = Response("update", 409,
                                 "That time is already booked", None)
             /\ UNCHANGED table
        ELSE /\ table' = after
             /\ resp' = Response("update", 200, "ok",
                                 booking_id \in Ids(after))
     /\ sent' = NoMail
     /\ UNCHANGED <<session, ntok, threads, Fixed>>

-----------------------------------------------------------------------------
(* Email *)

Remove(seq, i) == SubSeq(seq, 1, i - 1) \o SubSeq(seq, i + 1, Len(seq))

\* send_email gets as far as SMTP
SmtpReached(to_email) == env.SMTP_READY /\ to_email # <<>>

\* mutant: neither the sender nor send_email looks at the address
ThreadSendsUnchecked(thread) ==
  env.SEND_CUSTOMER_NOTIFICATIONS /\ env.SMTP_READY

\* send_booking_confirmation / send_cancellation_email / send_thanks_email
\* get as far as SMTP for the thread's appointment
ThreadSends(thread) ==
  /\ env.SEND_CUSTOMER_NOTIFICATIONS
  /\ Strip(OrEmpty(thread.email)) # <<>>
  /\ SmtpReached(Strip(OrEmpty(thread.email)))

\* a background thread runs to its end
ThreadRun(i) ==
  /\ i \in 1..Len(threads)
  /\ threads' = Remove(threads, i)
  /\ sent' = IF ThreadSends(threads[i])
             THEN {Message(threads[i].kind, Strip(OrEmpty(threads[i].email)))}
             ELSE NoMail
  /\ UNCHANGED <<table, session, ntok, resp, Fixed>>

\* mutant: the mail is sent by the handler, whose request then fails
ThreadFailAnswers500(i) ==
  /\ i \in 1..Len(threads)
  /\ ThreadSends(threads[i])
  /\ threads' = Remove(threads, i)
  /\ sent' = NoMail
  /\ resp' = Response(resp.op, 500, "Server error", None)
  /\ UNCHANGED <<table, session, ntok, Fixed>>

\* a background thread dies of an SMTP exception
ThreadFail(i) ==
  /\ i \in 1..Len(threads)
  /\ ThreadSends(threads[i])
  /\ threads' = Remove(threads, i)
  /\ sent' = NoMail
  /\ UNCHANGED <<table, session, ntok, resp, Fixed>>

\* the addresses send_tomorrow_reminders groups the rows of the day by
ReminderGroups(t, target) ==
  {Strip(OrEmpty(t[i].email)) :
     i \in {j \in Ids(t) : /\ t[j].date = target /\ t[j].status = "Scheduled"
                           /\ Strip(OrEmpty(t[j].email)) # <<>>}}

\* send_tomorrow_reminders, run by the daily thread; an SMTP exception ends
\* the loop, so only a part of the groups may be reached
Reminders(target) ==
  /\ \E reached \in SUBSET ReminderGroups(table, target) :
       sent' = {Message("reminder", em) : em \in {e \in reached : SmtpReached(e)}}
  /\ UNCHANGED <<table, session, ntok, threads, resp, Fixed>>

-----------------------------------------------------------------------------
(* The server, one request at a time *)

Idle == [w \in {} |-> None]

Init ==
  /\ table = <<>>
  /\ session = EmptySession
  /\ ntok = 0
  /\ threads = <<>>
  /\ sent = NoMail
  /\ resp = NoResponse
  /\ env \in Envs
  /\ workers = Idle
  /\ slotIn = None
  /\ slotOut = NoSlots
  /\ siteIn = None
  /\ siteOut = NoSite

Next ==
  \/ \E form \in BookForms : Book(form)
  \/ \E date_arg \in DateArgs : AvailableTimes(date_arg)
  \/ \E form \in CancelForms : CancelPublic(form)
  \/ \E form \in LoginForms : LoginPost(form)
  \/ Logout
  \/ \E status \in {"scheduled", "all"} : Admin(status)
  \/ \E id \in BookingIds, header \in Headers : AdminApiCancel(id, header)
  \/ \E id \in BookingIds, header \in Headers : AdminApiComplete(id, header)
  \/ \E id \in BookingIds, header \in Headers, body \in UpdateBodies :
       AdminApiUpdate(id, header, body)
  \/ \E i \in 1..MaxThreads : ThreadRun(i)
  \/ \E i \in 1..MaxThreads : ThreadFail(i)
  \/ \E target \in {DTue, DSun, DFri} : Reminders(target)

Spec == Init /\ [][Next]_vars

-----------------------------------------------------------------------------
(* The server with several requests in flight: gunicorn runs the handlers  *)
(* on several workers and threads, and each query is one step.             *)

NumWorkers == 2

Workers == 1..NumWorkers

IdleWorker == [pc |-> "idle"]

\* POST /book up to the answer of sb_slot_taken
BookCheck(w, form) ==
  LET date_str == Strip(OrEmpty(form.date))
      time_str == Strip(OrEmpty(form.time))
      name     == Strip(OrEmpty(form.name))
      service  == Strip(OrEmpty(form.service))
      email    == Strip(OrEmpty(form.email))
  IN /\ workers[w].pc = "idle"
     /\ IF <<>> \in {date_str, time_str, name, service}
        THEN /\ resp' = Response("book", 400, "Missing fields", None)
             /\ UNCHANGED workers
        ELSE IF sb_slot_taken(table, date_str, time_str)
        THEN /\ resp' = Response("book", 400, "Time already booked", None)
             /\ UNCHANGED workers
        ELSE /\ workers' = [workers EXCEPT ![w] =
                              [pc |-> "insert", date |-> date_str,
                               time |-> time_str, name |-> name,
                               service |-> service, email |-> email]]
             /\ UNCHANGED resp
     /\ sent' = NoMail
     /\ UNCHANGED <<table, session, ntok, threads, env, slotIn, slotOut,
                    siteIn, siteOut>>

\* POST /book from sb_insert_booking on
BookInsert(w) ==
  LET r == workers[w]
  IN /\ r.pc = "insert"
     /\ \/ /\ Len(table) < MaxBookings
           /\ table' = sb_insert_booking(table, r.date, r.time, r.name,
                                         r.service, r.email)
           /\ StartThread("confirmation", r.email)
           /\ resp' = Response("book", 200, "confirmation", None)
        \/ /\ resp' = Response("book", 500, "Server error", None)
           /\ UNCHANGED <<table, threads>>
     /\ workers' = [workers EXCEPT ![w] = IdleWorker]
     /\ sent' = NoMail
     /\ UNCHANGED <<session, ntok, env, slotIn, slotOut, siteIn, siteOut>>

\* POST /admin/api/update/<booking_id> up to the answer of the clash query
UpdateCheck(w, booking_id, header, body) ==
  LET name     == Strip(OrEmpty(body.name))
      service  == Strip(OrEmpty(body.service))
      new_date == Strip(OrEmpty(body.date))
      new_time == Strip(OrEmpty(body.time))
  IN /\ workers[w].pc = "idle"
     /\ IF ~LoggedIn
        THEN resp' = RedirectToLogin("update") /\ UNCHANGED workers
        ELSE IF ~CsrfOk(header)
        THEN resp' = CsrfError("update") /\ UNCHANGED workers
        ELSE IF <<>> \in {name, service, new_date, new_time}
        THEN /\ resp' = Response("update", 400, "Missing fields", None)
             /\ UNCHANGED workers
        ELSE IF UpdateClash(table, booking_id, new_date, new_time)
        THEN /\ resp' = Response("update", 409,
                                 "That time is already booked", None)
             /\ UNCHANGED workers
        ELSE /\ workers' = [workers EXCEPT ![w] =
                              [pc |-> "write", id |-> booking_id,
                               date |-> new_date, time |-> new_time,
                               name |-> name, service |-> service]]
             /\ UNCHANGED resp
     /\ sent' = NoMail
     /\ UNCHANGED <<table, session, ntok, threads, env, slotIn, slotOut,
                    siteIn, siteOut>>

\* POST /admin/api/update/<booking_id> from the update on
UpdateWrite(w) ==
  LET r     == workers[w]
      after == sb_update_booking(table, r.id, r.name, r.service, r.date, r.time)
  IN /\ r.pc = "write"
     /\ table' = after
     /\ resp' = Response("update", 200, "ok", r.id \in Ids(after))
     /\ workers' = [workers EXCEPT ![w] = IdleWorker]
     /\ sent' = NoMail
     /\ UNCHANGED <<session, ntok, threads, env, slotIn, slotOut, siteIn, siteOut>>

InitRace ==
  /\ table = <<>>
  /\ session = EmptySession
  /\ ntok = 0
  /\ threads = <<>>
  /\ sent = NoMail
  /\ resp = NoResponse
  /\ env \in Envs
  /\ workers = [w \in Workers |-> IdleWorker]
  /\ slotIn = None
  /\ slotOut = NoSlots
  /\ siteIn = None
  /\ siteOut = NoSite

NextRace ==
  \/ \E form \in LoginForms : LoginPost(form)
  \/ \E w \in Workers, form \in BookForms : BookCheck(w, form)
  \/ \E w \in Workers : BookInsert(w)
  \/ \E w \in Workers, id \in BookingIds, header \in Headers,
        body \in UpdateBodies : UpdateCheck(w, id, header, body)
  \/ \E w \in Workers : UpdateWrite(w)
  \/ \E i \in 1..MaxThreads : ThreadRun(i)

SpecRace == InitRace /\ [][NextRace]_vars

-----------------------------------------------------------------------------
(* generate_time_slots on its own *)

MaxGrid  == 10      \* opening and closing times tried: 0 .. MaxGrid grid steps
GridStep == 135     \* minutes between two of them

Slugs == {<<"h", "a", "i", "r">>, <<"n", "a", "i", "l">>}

\* opening and closing times as the hours table writes them
GridTimes == {LStripZero(FormatTime(g * GridStep)) : g \in 0..MaxGrid}

\* the calls tried: the hours of every weekday of the table, and every pair
\* of grid times, for a page of either site
SlotCalls ==
  {[start |-> HOURS_BY_WEEKDAY[w][1], end |-> HOURS_BY_WEEKDAY[w][2],
    interval |-> 30, weekday |-> w, slug |-> g]
     : w \in DOMAIN HOURS_BY_WEEKDAY, g \in Slugs}
  \cup {[start |-> a, end |-> b, interval |-> 30, weekday |-> ValueError,
         slug |-> g] : a \in GridTimes, b \in GridTimes, g \in Slugs}

GenerateSlots ==
  /\ ~slotOut.done
  /\ slotOut' = [done |-> TRUE,
                 slots |-> generate_time_slots(slotIn.start, slotIn.end,
                                               slotIn.interval)]
  /\ UNCHANGED <<table, session, ntok, threads, sent, resp, env, workers,
                 slotIn, siteIn, siteOut>>

InitSlots ==
  /\ table = <<>>
  /\ session = EmptySession
  /\ ntok = 0
  /\ threads = <<>>
  /\ sent = NoMail
  /\ resp = NoResponse
  /\ env \in {e \in Envs : e.SMTP_READY}
  /\ workers = Idle
  /\ slotIn \in SlotCalls
  /\ slotOut = NoSlots
  /\ siteIn = None
  /\ siteOut = NoSite

NextSlots == GenerateSlots

SpecSlots == InitSlots /\ [][NextSlots]_vars

-----------------------------------------------------------------------------
(* The site loader.  The texts of a site are not taken apart: each is a     *)
(* sequence of one symbol, the empty string is <<>>.                       *)

SiteFields ==
  {"name", "tagline", "gradient_start", "gradient_end", "cta_text", "cta_url",
   "address", "phone", "email", "map_embed"}

\* os.getenv(key): None when the variable is not set
Getenv(e, key) == IF key \in DOMAIN e THEN e[key] ELSE None

\* os.getenv(key, default)
GetenvOr(e, key, default) == IF key \in DOMAIN e THEN e[key] ELSE default

\* x or y
Or(x, y) == IF x \in {None, <<>>} THEN y ELSE x

\* dict.get(key) of a row, {} when there is no row
RowGet(row, key) == IF key \in DOMAIN row THEN row[key] ELSE None

NoRow == [k \in {} |-> None]

RECURSIVE SplitComma(_, _)
\* str.split(","), cur being the piece read so far
SplitComma(s, cur) ==
  IF s = <<>> THEN <<cur>>
  ELSE IF Head(s) = "," THEN <<cur>> \o SplitComma(Tail(s), <<>>)
  ELSE SplitComma(Tail(s), Append(cur, Head(s)))

\* [s.strip() for s in text.split(",") if s.strip()]
HeroImagesOf(text) ==
  LET pieces   == SplitComma(text, <<>>)
      Kept(x)  == Strip(x) # <<>>
      kept     == SelectSeq(pieces, Kept)
  IN [i \in 1..Len(kept) |-> Strip(kept[i])]

storage_public_url(path) ==
  <<"SUPABASE_URL", "/storage/v1/object/public/">> \o path

RECURSIVE SortByOrder(_)
\* .order("sort_order", desc = False)
SortByOrder(rows) ==
  IF rows = {} THEN <<>>
  ELSE LET first == CHOOSE r \in rows :
                      \A q \in rows : r.sort_order <= q.sort_order
       IN <<first>> \o SortByOrder(rows \ {first})

\* .eq("business_id", id).eq("published", True).order("sort_order")
Published(rows, business_id) ==
  SortByOrder({rows[i] : i \in {j \in 1..Len(rows) :
                 rows[j].business_id = business_id /\ rows[j].published}})

\* .eq("slug", slug).limit(1), then (data or [None])[0] or {}
BusinessRow(businesses, slug) ==
  IF \E i \in 1..Len(businesses) : businesses[i].slug = slug
  THEN businesses[CHOOSE i \in 1..Len(businesses) :
                    /\ businesses[i].slug = slug
                    /\ \A j \in 1..(i - 1) : businesses[j].slug # slug]
  ELSE NoRow

HeroOfRows(rows, slug) ==
  LET Named(r) == r.filename \notin {None, <<>>}
      named    == SelectSeq(rows, Named)
  IN [i \in 1..Len(named) |->
        storage_public_url(<<"site-media/">> \o slug \o <<"/">>
                             \o named[i].filename)]

\* mutant: the environment wins over the row
load_site_env_first(in) ==
  LET e   == in.osenv
      biz == BusinessRow(in.businesses, in.slug)
      has == "id" \in DOMAIN biz
      id  == IF has THEN biz.id ELSE 0
      hero_rows == IF has THEN HeroOfRows(Published(in.hero_images, id), in.slug)
                   ELSE <<>>
  IN [queries |-> IF has THEN <<"businesses", "services", "reviews", "hero_images">>
                  ELSE <<"businesses">>,
      site |->
       [slug |-> in.slug,
        brand |-> [name |-> Or(Getenv(e, "SALON_NAME"), Or(RowGet(biz, "name"), <<"HairDaze">>)),
                   tagline |-> Or(RowGet(biz, "tagline"),
                                  GetenvOr(e, "TAGLINE", <<"Where Style Meets Simplicity">>))],
        theme |-> [gradient_start |-> Or(RowGet(biz, "gradient_start"),
                                         GetenvOr(e, "GRADIENT_START", <<"#ff9966">>)),
                   gradient_end |-> Or(RowGet(biz, "gradient_end"),
                                       GetenvOr(e, "GRADIENT_END", <<"#66cccc">>))],
        hero |-> [cta_text |-> Or(RowGet(biz, "cta_text"),
                                  GetenvOr(e, "CTA_TEXT", <<"Book Now">>)),
                  cta_url |-> Or(RowGet(biz, "cta_url"),
                                 GetenvOr(e, "CTA_URL", <<"/book">>)),
                  subtext |-> GetenvOr(e, "HERO_SUBTEXT", <<"Color, cuts, and styling done with care-and on your schedule.">>),
                  images |-> IF hero_rows # <<>> THEN hero_rows
                             ELSE HeroImagesOf(GetenvOr(e, "HERO_IMAGES", <<>>))],
        services |-> IF has THEN Published(in.services, id) ELSE <<>>,
        reviews |-> IF has THEN Published(in.reviews, id) ELSE <<>>,
        contact |-> [address |-> Or(RowGet(biz, "address"),
                                    GetenvOr(e, "SALON_ADDRESS", <<"414 E Walnut St, North Wales, PA 19454">>)),
                     phone |-> Or(RowGet(biz, "phone"), GetenvOr(e, "SALON_PHONE", <<>>)),
                     email |-> Or(RowGet(biz, "email"),
                                  GetenvOr(e, "SALON_EMAIL",
                                           Or(Getenv(e, "FROM_EMAIL"), <<>>))),
                     map_embed |-> Or(RowGet(biz, "map_embed"),
                                      GetenvOr(e, "MAP_EMBED", <<>>))]]]

\* load_site(slug): the site, and the tables queried on the way
load_site(in) ==
  LET e   == in.osenv
      biz == BusinessRow(in.businesses, in.slug)
      has == "id" \in DOMAIN biz
      id  == IF has THEN biz.id ELSE 0
      hero_rows == IF has THEN HeroOfRows(Published(in.hero_images, id), in.slug)
                   ELSE <<>>
  IN [queries |-> IF has THEN <<"businesses", "services", "reviews", "hero_images">>
                  ELSE <<"businesses">>,
      site |->
       [slug |-> in.slug,
        brand |-> [name |-> Or(RowGet(biz, "name"),
                               GetenvOr(e, "SALON_NAME", <<"HairDaze">>)),
                   tagline |-> Or(RowGet(biz, "tagline"),
                                  GetenvOr(e, "TAGLINE", <<"Where Style Meets Simplicity">>))],
        theme |-> [gradient_start |-> Or(RowGet(biz, "gradient_start"),
                                         GetenvOr(e, "GRADIENT_START", <<"#ff9966">>)),
                   gradient_end |-> Or(RowGet(biz, "gradient_end"),
                                       GetenvOr(e, "GRADIENT_END", <<"#66cccc">>))],
        hero |-> [cta_text |-> Or(RowGet(biz, "cta_text"),
                                  GetenvOr(e, "CTA_TEXT", <<"Book Now">>)),
                  cta_url |-> Or(RowGet(biz, "cta_url"),
                                 GetenvOr(e, "CTA_URL", <<"/book">>)),
                  subtext |-> GetenvOr(e, "HERO_SUBTEXT", <<"Color, cuts, and styling done with care-and on your schedule.">>),
                  images |-> IF hero_rows # <<>> THEN hero_rows
                             ELSE HeroImagesOf(GetenvOr(e, "HERO_IMAGES", <<>>))],
        services |-> IF has THEN Published(in.services, id) ELSE <<>>,
        reviews |-> IF has THEN Published(in.reviews, id) ELSE <<>>,
        contact |-> [address |-> Or(RowGet(biz, "address"),
                                    GetenvOr(e, "SALON_ADDRESS", <<"414 E Walnut St, North Wales, PA 19454">>)),
                     phone |-> Or(RowGet(biz, "phone"), GetenvOr(e, "SALON_PHONE", <<>>)),
                     email |-> Or(RowGet(biz, "email"),
                                  GetenvOr(e, "SALON_EMAIL",
                                           Or(Getenv(e, "FROM_EMAIL"), <<>>))),
                     map_embed |-> Or(RowGet(biz, "map_embed"),
                                      GetenvOr(e, "MAP_EMBED", <<>>))]]]

\* _env_fallback_site()
env_fallback_site(e) ==
  [slug |-> GetenvOr(e, "DEFAULT_SITE_SLUG", <<"h", "a", "i", "r", "d", "a", "z", "e">>),
   brand |-> [name |-> GetenvOr(e, "SALON_NAME", <<"HairDaze">>),
              tagline |-> GetenvOr(e, "TAGLINE", <<"Where Style Meets Simplicity">>)],
   theme |-> [gradient_start |-> GetenvOr(e, "GRADIENT_START", <<"#ff9966">>),
              gradient_end |-> GetenvOr(e, "GRADIENT_END", <<"#66cccc">>)],
   hero |-> [cta_text |-> GetenvOr(e, "CTA_TEXT", <<"Book Now">>),
             cta_url |-> GetenvOr(e, "CTA_URL", <<"/book">>),
             subtext |-> GetenvOr(e, "HERO_SUBTEXT", <<"Color, cuts, and styling done with care-and on your schedule.">>),
             images |-> HeroImagesOf(GetenvOr(e, "HERO_IMAGES", <<>>))],
   services |-> <<>>,
   reviews |-> <<>>,
   contact |-> [address |-> GetenvOr(e, "SALON_ADDRESS", <<"414 E Walnut St, North Wales, PA 19454">>),
                phone |-> GetenvOr(e, "SALON_PHONE", <<>>),
                email |-> GetenvOr(e, "SALON_EMAIL", Or(Getenv(e, "FROM_EMAIL"), <<>>)),
                map_embed |-> GetenvOr(e, "MAP_EMBED", <<>>)]]

\* the site pages: what load_site is asked and what it finds
Hair == <<"h", "a", "i", "r">>
Nail == <<"n", "a", "i", "l">>
Spa  == <<"s", "p", "a">>

SiteSlugs == {Hair, Nail}

EnvKeys ==
  {"SALON_NAME", "TAGLINE", "GRADIENT_START", "GRADIENT_END", "CTA_TEXT",
   "CTA_URL", "HERO_SUBTEXT", "HERO_IMAGES", "SALON_ADDRESS", "SALON_PHONE",
   "SALON_EMAIL", "FROM_EMAIL", "MAP_EMBED", "DEFAULT_SITE_SLUG"}

\* "a.jpg, b.jpg ,," spelled with one symbol per file name
HeroText == <<"a.jpg", ",", " ", "b.jpg", " ", ",", ",">>

EnvValue(key) == IF key = "HERO_IMAGES" THEN HeroText ELSE <<"env", key>>

SiteEnvs ==
  { [k \in {} |-> None],
    [k \in EnvKeys |-> EnvValue(k)],
    [k \in EnvKeys |-> <<>>],
    [k \in {"FROM_EMAIL", "HERO_IMAGES"} |-> EnvValue(k)] }

FieldKinds == {"none", "empty", "value"}

RowPatterns ==
  {[f \in SiteFields |-> v] : v \in FieldKinds}
    \cup {[f \in SiteFields |-> IF f = f0 THEN "value" ELSE "none"] : f0 \in SiteFields}
    \cup {[f \in SiteFields |-> IF f = f0 THEN "empty" ELSE "value"] : f0 \in SiteFields}

BusinessOf(id, slug, pattern) ==
  [k \in SiteFields \cup {"id", "slug"} |->
     IF k = "id" THEN id
     ELSE IF k = "slug" THEN slug
     ELSE IF pattern[k] = "none" THEN None
     ELSE IF pattern[k] = "empty" THEN <<>>
     ELSE <<"biz", id, k>>]

BusinessTables ==
  {<<BusinessOf(8, Spa, [f \in SiteFields |-> "value"])>>}
    \cup {<<BusinessOf(8, Spa, [f \in SiteFields |-> "value"]), BusinessOf(7, Hair, p)>> :
            p \in RowPatterns}

ContentRows ==
  << [business_id |-> 7, name |-> <<"second">>, sort_order |-> 2, published |-> TRUE],
     [business_id |-> 8, name |-> <<"other">>,  sort_order |-> 1, published |-> TRUE],
     [business_id |-> 7, name |-> <<"draft">>,  sort_order |-> 0, published |-> FALSE],
     [business_id |-> 7, name |-> <<"first">>,  sort_order |-> 1, published |-> TRUE] >>

HeroRows ==
  << [business_id |-> 7, filename |-> <<"z.jpg">>, sort_order |-> 3, published |-> TRUE],
     [business_id |-> 7, filename |-> <<>>,        sort_order |-> 2, published |-> TRUE],
     [business_id |-> 7, filename |-> <<"y.jpg">>, sort_order |-> 1, published |-> TRUE],
     [business_id |-> 8, filename |-> <<"x.jpg">>, sort_order |-> 0, published |-> TRUE] >>

UnnamedHeroRows ==
  << [business_id |-> 7, filename |-> None, sort_order |-> 1, published |-> TRUE] >>

ContentTables ==
  { [services |-> <<>>, reviews |-> <<>>, hero_images |-> <<>>],
    [services |-> ContentRows, reviews |-> ContentRows, hero_images |-> HeroRows],
    [services |-> ContentRows, reviews |-> <<>>, hero_images |-> UnnamedHeroRows] }

SiteCalls ==
  { [slug |-> g, businesses |-> b, services |-> c.services, reviews |-> c.reviews,
     hero_images |-> c.hero_images, osenv |-> e] :
      g \in SiteSlugs, b \in BusinessTables, c \in ContentTables, e \in SiteEnvs }

\* site(slug): load_site answers the request
LoadSite ==
  /\ ~siteOut.done
  /\ siteOut' = [done |-> TRUE, site |-> load_site(siteIn).site,
                 queries |-> load_site(siteIn).queries]
  /\ UNCHANGED <<table, session, ntok, threads, sent, resp, env, workers,
                 slotIn, slotOut, siteIn>>

InitSite ==
  /\ table = <<>>
  /\ session = EmptySession
  /\ ntok = 0
  /\ threads = <<>>
  /\ sent = NoMail
  /\ resp = NoResponse
  /\ env \in Envs
  /\ workers = Idle
  /\ slotIn = None
  /\ slotOut = NoSlots
  /\ siteIn \in SiteCalls
  /\ siteOut = NoSite

NextSite == LoadSite

SpecSite == InitSite /\ [][NextSite]_vars


-----------------------------------------------------------------------------
(* Claims *)

Statuses == {"Scheduled", "Cancelled", "Completed"}

\* C1: every row's status is Scheduled, Cancelled or Completed after every
\* step, and a row a step adds to the table starts as Scheduled.
C1_StatusOneOfThree ==
  [][/\ \A i \in Ids(table') : table'[i].status \in Statuses
     /\ Len(table') >= Len(table)
     /\ \A i \in Ids(table') \ Ids(table) : table'[i].status = "Scheduled"]_vars

\* C1 witness: a booking was made, one row was cancelled and one completed.
C1_Witness ==
  /\ \E i \in Ids(table) : table[i].status = "Cancelled"
  /\ \E i \in Ids(table) : table[i].status = "Completed"

\* C2: the slots are the times open + 30k that are before close, in
\* ascending order, none missing, none twice, and never the closing time;
\* a call for the same weekday under any other slug returns the same slots.
C2_SlotsAreTheHalfHours ==
  slotOut.done =>
    LET open  == ParseTime(slotIn.start)
        close == ParseTime(slotIn.end)
        slots == slotOut.slots
        n     == Len(slots)
    IN /\ \A k \in 1..n : /\ ParseTime(slots[k]) = open + 30 * (k - 1)
                          /\ ParseTime(slots[k]) >= open
                          /\ ParseTime(slots[k]) < close
       /\ open + 30 * n >= close
       /\ \A i, j \in 1..n : i # j => slots[i] # slots[j]
       /\ \A k \in 1..n : slots[k] # slotIn.end
       /\ open >= close => n = 0
       /\ \A c \in SlotCalls :
            (c.weekday = slotIn.weekday /\ c.start = slotIn.start /\ c.end = slotIn.end)
              => generate_time_slots(c.start, c.end, c.interval) = slots

\* C2 witness: the Tuesday hours gave eighteen slots, the last at 6:30 PM.
C2_Witness ==
  /\ slotOut.done
  /\ slotIn.weekday = 1
  /\ Len(slotOut.slots) = 18
  /\ slotOut.slots[1] = T10AM
  /\ slotOut.slots[18] = <<"6", ":", "3", "0", " ", "P", "M">>

\* the weekday of the dates asked for, from the calendar of January 2025
Calendar(date_arg) ==
  IF date_arg \in {DTue, DTueShort} THEN 1
  ELSE IF date_arg = DFri THEN 4
  ELSE IF date_arg = DSun THEN 6
  ELSE IF date_arg = DMon THEN 0
  ELSE ValueError

\* the rows that hold a time on a date
ScheduledAt(t, date_str, time_str) ==
  {i \in Ids(t) : /\ t[i].date = date_str /\ t[i].time = time_str
                  /\ t[i].status = "Scheduled"}

\* C3: GET /available_times answers with the slots of the date's weekday that
\* no Scheduled row of that date holds, in slot order, and with the empty
\* list for a missing or unparsable date and for a day without hours.
C3_AvailableTimes ==
  [][\A d \in DateArgs :
       (resp'.op = "available_times" /\ AvailableTimes(d)) =>
         LET wd  == Calendar(d)
             all == IF wd \in DOMAIN HOURS_BY_WEEKDAY
                    THEN DaySlots[wd] ELSE <<>>
             got == resp'.data
             Pos(x) == CHOOSE k \in 1..Len(all) : all[k] = x
         IN /\ resp'.code = 200
            /\ \A k \in 1..Len(all) :
                 (\E m \in 1..Len(got) : got[m] = all[k])
                   <=> ScheduledAt(table, d, all[k]) = {}
            /\ \A m \in 1..Len(got) : \E k \in 1..Len(all) : got[m] = all[k]
            /\ \A m \in 1..(Len(got) - 1) : Pos(got[m]) < Pos(got[m + 1])
            /\ wd \in {ValueError, 0, 6} => got = <<>>]_vars

\* C3 witness: the 10:00 AM slot of the Tuesday is offered again after its
\* only booking was cancelled or completed.
C3_Witness ==
  /\ resp.op = "available_times"
  /\ Len(resp.data) = 18
  /\ resp.data[1] = T10AM
  /\ \E i \in Ids(table) : /\ table[i].date = DTue /\ table[i].time = T10AM
                           /\ table[i].status # "Scheduled"

\* a step of the admin view or of an admin API action (each of them answers
\* under its own name)
AdminStep ==
  /\ resp'.op \in {"admin", "cancel", "complete", "update"}
  /\ \/ \E status \in {"scheduled", "all"} : Admin(status)
     \/ \E id \in BookingIds, header \in Headers : AdminApiCancel(id, header)
     \/ \E id \in BookingIds, header \in Headers : AdminApiComplete(id, header)
     \/ \E id \in BookingIds, header \in Headers, body \in UpdateBodies :
          AdminApiUpdate(id, header, body)

\* the credentials of the environment admin or of a row of admins
ValidCredentials(form) ==
  LET email == Lower(Strip(OrEmpty(form.email)))
      pw    == OrEmpty(form.password)
  IN \/ /\ env.ADMIN_EMAIL # None /\ env.ADMIN_PASSWORD # None
        /\ email = Lower(Strip(env.ADMIN_EMAIL))
        /\ pw = env.ADMIN_PASSWORD
     \/ \E i \in 1..Len(Admins) :
          Admins[i].email = email /\ Admins[i].password_hash = PasswordHash(pw)

HasUser(s) == "user_id" \in DOMAIN s

\* C4: an admin request on a session without user_id is redirected to the
\* login page and changes neither the table nor the threads; only a login
\* POST with valid credentials puts a user_id in the session, and logout
\* removes it.
C4_AdminNeedsLogin ==
  [][/\ (~HasUser(session) /\ AdminStep) =>
          /\ resp'.code = 302 /\ resp'.msg = "login"
          /\ UNCHANGED <<table, threads>>
     /\ (HasUser(session') /\ session' # session) =>
          \E form \in LoginForms : LoginPost(form) /\ ValidCredentials(form)
     /\ Logout => ~HasUser(session')]_vars

\* C4 witness: after a login and a logout, an admin cancel of a Scheduled
\* booking was redirected.
C4_Witness ==
  /\ ntok > 0
  /\ ~HasUser(session)
  /\ resp.op = "cancel" /\ resp.code = 302
  /\ \E i \in Ids(table) : table[i].status = "Scheduled"

\* C5: a step of an email thread or of the reminder run, whether it sends,
\* fails or sends nothing, leaves the table and the last response as they
\* are; and a request that starts a thread has answered 200 with the thread
\* started and nothing sent yet.
C5_EmailFireAndForget ==
  [][/\ (sent' # NoMail \/ Len(threads') < Len(threads)) =>
          UNCHANGED <<table, resp>>
     /\ Len(threads') > Len(threads) =>
          /\ resp'.op \in {"book", "cancel", "complete"}
          /\ resp'.code = 200
          /\ sent' = NoMail]_vars

\* C5 witness: a booking with an address was confirmed with 200, its thread
\* died of an SMTP exception, and the row and the response stand.
C5_Witness ==
  /\ env.SEND_CUSTOMER_NOTIFICATIONS /\ env.SMTP_READY
  /\ resp.op = "book" /\ resp.code = 200
  /\ threads = <<>> /\ sent = NoMail
  /\ Len(table) = 1 /\ table[1].email = Mail /\ table[1].status = "Scheduled"

\* the form leaves the email out: absent, empty or blank
NoEmail(form) == Strip(OrEmpty(form.email)) = <<>>

\* the form has its four required fields
Complete(form) ==
  \A f \in {"date", "time", "name", "service"} : Strip(OrEmpty(form[f])) # <<>>

\* C6: a complete booking without email for a free slot is not rejected and
\* its row holds a null email; every message goes to a non-empty address
\* that is the email of a row; a thread without an address sends nothing.
C6_EmailOptional ==
  [][/\ \A form \in BookForms :
          (resp'.op = "book" /\ NoEmail(form) /\ Complete(form) /\ Book(form)) =>
            /\ ScheduledAt(table, Strip(form.date), Strip(form.time)) = {}
                 => resp'.code \in {200, 500}
            /\ resp'.code = 200 =>
                 /\ Len(table') = Len(table) + 1
                 /\ table'[Len(table')].email = None
     /\ \A m \in sent' :
          /\ m.to # <<>>
          /\ \E i \in Ids(table') : table'[i].email = m.to
     /\ \A i \in 1..Len(threads) :
          (Len(threads') < Len(threads) /\ threads[i].email \in {None, <<>>}
             /\ ThreadRun(i)) => sent' = NoMail]_vars

\* C6 witness: with email switched on, a booking without email was booked
\* and cancelled by the admin, both threads are over and nothing was sent.
C6_Witness ==
  /\ env.SEND_CUSTOMER_NOTIFICATIONS /\ env.SMTP_READY
  /\ Len(table) = 1 /\ table[1].email = None /\ table[1].status = "Cancelled"
  /\ resp.op = "cancel" /\ resp.code = 200 /\ resp.data = TRUE
  /\ threads = <<>> /\ sent = NoMail

\* the value of one of the ten fields in a site
FieldOf(site, f) ==
  IF f \in {"name", "tagline"} THEN site.brand[f]
  ELSE IF f \in {"gradient_start", "gradient_end"} THEN site.theme[f]
  ELSE IF f \in {"cta_text", "cta_url"} THEN site.hero[f]
  ELSE site.contact[f]

\* C7: load_site(slug) sets each of name, tagline, the gradient colours, CTA
\* text and url, address, phone, email and map embed to the value of the
\* businesses row with that slug when the row has a non-empty value there, and
\* to the environment default otherwise; when no businesses row has the slug,
\* only the businesses table is queried and the result is _env_fallback_site()
\* (its services and reviews empty) with the requested slug in place of the
\* default one.
C7_LoadSiteFieldByField ==
  siteOut.done =>
    LET found == {i \in 1..Len(siteIn.businesses) :
                    siteIn.businesses[i].slug = siteIn.slug}
        fb    == env_fallback_site(siteIn.osenv)
    IN /\ \A f \in SiteFields :
            FieldOf(siteOut.site, f) =
              IF \E i \in found : siteIn.businesses[i][f] \notin {None, <<>>}
              THEN siteIn.businesses[CHOOSE i \in found : TRUE][f]
              ELSE FieldOf(fb, f)
       /\ found = {} =>
            /\ siteOut.queries = <<"businesses">>
            /\ fb.services = <<>>
            /\ fb.reviews = <<>>
            /\ siteOut.site = [fb EXCEPT !.slug = siteIn.slug]

\* a row with a name and an empty phone was loaded over a set environment
C7_Witness ==
  /\ siteOut.done
  /\ siteOut.site.brand.name = <<"biz", 7, "name">>
  /\ siteOut.site.contact.phone = <<"env", "SALON_PHONE">>
  /\ siteOut.queries = <<"businesses", "services", "reviews", "hero_images">>

\* C8: at most one Scheduled booking for a (date, time).
C8_OneScheduledPerSlot ==
  \A i, j \in Ids(table) :
    (/\ table[i].status = "Scheduled" /\ table[j].status = "Scheduled"
     /\ table[i].date = table[j].date /\ table[i].time = table[j].time)
      => i = j

\* C9: a booking POST with a required field missing, or for a (date, time) a
\* Scheduled row holds, is answered 400 and leaves the table and the threads
\* alone; a complete one for a slot no Scheduled row holds is not answered 400.
C9_BookRejects ==
  [][\A form \in BookForms :
       (resp'.op = "book" /\ Book(form)) =>
         LET held == ScheduledAt(table, Strip(OrEmpty(form.date)),
                                 Strip(OrEmpty(form.time))) # {}
         IN /\ ~Complete(form) =>
                 /\ resp'.code = 400 /\ resp'.msg = "Missing fields"
                 /\ UNCHANGED <<table, threads>> /\ sent' = NoMail
            /\ (Complete(form) /\ held) =>
                 /\ resp'.code = 400 /\ resp'.msg = "Time already booked"
                 /\ UNCHANGED <<table, threads>> /\ sent' = NoMail
            /\ (Complete(form) /\ ~held) => resp'.code # 400]_vars

\* C9 witness: a booking was refused for a taken slot while a Cancelled or
\* Completed row is in the table.
C9_Witness ==
  /\ resp.op = "book" /\ resp.msg = "Time already booked"
  /\ \E i \in Ids(table) : table[i].status = "Scheduled"
  /\ \E i \in Ids(table) : table[i].status # "Scheduled"

\* C10: no step removes a row, and a step that changes a row's status takes
\* it from Scheduled to Cancelled or to Completed.
C10_StatusTransitions ==
  [][\A i \in Ids(table) :
       /\ i \in Ids(table')
       /\ table'[i].status # table[i].status =>
            /\ table[i].status = "Scheduled"
            /\ table'[i].status \in {"Cancelled", "Completed"}]_vars

\* C10 witness: an admin update changed a Cancelled row, which is still
\* Cancelled.
C10_Witness ==
  /\ resp.op = "update" /\ resp.code = 200 /\ resp.data = TRUE
  /\ Len(table) = 1 /\ table[1].status = "Cancelled"
  /\ table[1].name = Ann /\ table[1].date = DSun

\* the step took row id from Scheduled to the status
Moved(id, status) ==
  /\ id \in Ids(table)
  /\ table[id].status = "Scheduled"
  /\ table'[id].status = status

\* C11: an admin cancel (admin complete) that passes the guards reports
\* changed true, and starts the cancellation (thank-you) thread, exactly when
\* the request itself took the booking from Scheduled to Cancelled
\* (Completed); on an already Cancelled or Completed booking and on an unknown
\* id it reports changed false and starts nothing.
C11_ChangedIffMoved ==
  [][\A id \in BookingIds :
       /\ (resp'.op = "cancel" /\ resp'.code = 200
             /\ \E header \in Headers : AdminApiCancel(id, header)) =>
            /\ resp'.data = TRUE <=> Moved(id, "Cancelled")
            /\ threads' # threads <=> Moved(id, "Cancelled")
       /\ (resp'.op = "complete" /\ resp'.code = 200
             /\ \E header \in Headers : AdminApiComplete(id, header)) =>
            /\ resp'.data = TRUE <=> Moved(id, "Completed")
            /\ threads' # threads <=> Moved(id, "Completed")]_vars

\* a step of an admin API action for a booking id with an X-CSRF-Token header
AdminApiStep(id, header) ==
  \/ resp'.op = "cancel" /\ AdminApiCancel(id, header)
  \/ resp'.op = "complete" /\ AdminApiComplete(id, header)
  \/ resp'.op = "update" /\ \E body \in UpdateBodies : AdminApiUpdate(id, header, body)

\* the step is answered 403 {ok: false, error: csrf}, no row changes and no
\* email thread starts
Refused403 ==
  /\ resp'.code = 403 /\ resp'.msg = "csrf"
  /\ UNCHANGED <<table, threads>>

\* every session with a user_id holds the token of the last successful login
TokenHeld ==
  HasUser(session') =>
    /\ "csrf" \in DOMAIN session'
    /\ session'["csrf"] \notin {None, <<>>}
    /\ session'["csrf"] = Token(ntok')

\* C12 as stated: an admin API step changes a row or starts a thread only
\* with the header equal to the session's csrf token; with any different or
\* missing header it is answered 403 and changes nothing; a session with a
\* user_id holds a non-empty csrf token.
C12_CsrfAnySession ==
  [][/\ \A id \in BookingIds, header \in Headers :
          AdminApiStep(id, header) =>
            /\ (table' # table \/ threads' # threads) =>
                 ("csrf" \in DOMAIN session /\ header = session["csrf"])
            /\ ("csrf" \notin DOMAIN session \/ header # SessionGet("csrf")) =>
                 Refused403
     /\ TokenHeld]_vars

\* C12, on a session that holds a user_id: an admin API step changes a row or
\* starts a thread only with the header equal to the session's csrf token,
\* the one of the last successful login; with a different or missing header
\* it is answered 403 and changes nothing; a session with a user_id holds a
\* non-empty csrf token, so the missing header never passes.  (Without a
\* user_id the step is redirected to the login page whatever the header.)
C12_CsrfLoggedIn ==
  [][/\ \A id \in BookingIds, header \in Headers :
          AdminApiStep(id, header) =>
            /\ (table' # table \/ threads' # threads) =>
                 /\ HasUser(session)
                 /\ header = session["csrf"]
                 /\ header = Token(ntok)
            /\ (HasUser(session) /\ header # session["csrf"]) => Refused403
            /\ (HasUser(session) /\ header = None) => Refused403
     /\ TokenHeld]_vars

\* C12 witness: after a second login, an admin cancel of a Scheduled booking
\* with the token of the first login was answered 403.
C12_Witness ==
  /\ ntok = 2
  /\ HasUser(session)
  /\ resp.op = "cancel" /\ resp.code = 403
  /\ \E i \in Ids(table) : table[i].status = "Scheduled"

\* the environment admin is configured: ADMIN_EMAIL and ADMIN_PASSWORD are set
EnvAdmin ==
  /\ env.ADMIN_EMAIL \notin {None, <<>>} /\ Strip(env.ADMIN_EMAIL) # <<>>
  /\ env.ADMIN_PASSWORD \notin {None, <<>>}

\* the submitted email is the one of the environment admin
IsEnvEmail(form) ==
  EnvAdmin /\ Lower(Strip(OrEmpty(form.email))) = Lower(Strip(env.ADMIN_EMAIL))

\* the credentials are right: for the environment admin's email the
\* environment password alone decides, for any other email a row of admins
RightCredentials(form) ==
  IF IsEnvEmail(form)
  THEN OrEmpty(form.password) = env.ADMIN_PASSWORD
  ELSE \E i \in 1..Len(Admins) :
         /\ Admins[i].email = Lower(Strip(OrEmpty(form.email)))
         /\ Admins[i].password_hash = PasswordHash(OrEmpty(form.password))

\* C13: a login POST with wrong credentials is answered 401 and leaves the
\* session as it was; one with right credentials is redirected to the admin
\* view and replaces the whole session by user_id, email and a csrf token
\* that was never issued before, so that no X-CSRF-Token header of an earlier
\* login equals it; for the email of the configured environment admin
\* (ADMIN_EMAIL and ADMIN_PASSWORD both set) the environment password alone
\* decides, whatever the admins table holds.
C13_LoginFrame ==
  [][\A form \in LoginForms :
       (resp'.op = "login" /\ LoginPost(form)) =>
         /\ ~RightCredentials(form) =>
              /\ resp'.code = 401
              /\ session' = session
         /\ RightCredentials(form) =>
              /\ resp'.code = 302 /\ resp'.msg = "admin"
              /\ DOMAIN session' = {"user_id", "email", "csrf"}
              /\ session'["csrf"] \notin {None, <<>>}
              /\ \A header \in Headers : header # session'["csrf"]
              /\ "csrf" \in DOMAIN session => session'["csrf"] # session["csrf"]
         /\ IsEnvEmail(form) =>
              /\ resp'.code = 302 <=> OrEmpty(form.password) = env.ADMIN_PASSWORD
              /\ resp'.code = 302 => session'["user_id"] = 1]_vars

\* C13 witness: a second successful login, by the environment admin, on a
\* session that held the token of the first.
C13_Witness ==
  /\ EnvAdmin
  /\ ntok = 2
  /\ resp.op = "login" /\ resp.code = 302
  /\ HasUser(session) /\ session["user_id"] = 1
  /\ session["csrf"] = Token(2)

\* C14: every Scheduled row has a date whose weekday has hours and a time
\* that is one of the slots generated for that weekday.
C14_ScheduledInHours ==
  \A i \in Ids(table) :
    table[i].status = "Scheduled" =>
      LET wd == Calendar(table[i].date)
      IN /\ wd \in DOMAIN HOURS_BY_WEEKDAY
         /\ \E k \in 1..Len(DaySlots[wd]) : DaySlots[wd][k] = table[i].time

====
